---- MODULE Spec2Model ----
(***************************************************************************)
(* Model of edna.py: the eDNA dashboard.                                   *)
(*                                                                         *)
(* State: the record table (df), the filter widgets, the filtered view     *)
(* and what is derived from it (table rows, summary plots), the            *)
(* process-wide species_info_cache, the background fetch threads, and the  *)
(* species-info panel.                                                     *)
(*                                                                         *)
(* Handlers that Tk runs on the main thread (lb_species_event,             *)
(* apply_filter and the widget edits) are one action each.  A fetch thread *)
(* contributes two steps: the network answer together with the callback    *)
(* it triggers, and the later assignment into species_info_cache.  The     *)
(* callback's widget calls are carried out by the Tk main loop between two *)
(* handlers, so a callback is one step as well.                            *)
(***************************************************************************)
EXTENDS Integers, Sequences, FiniteSets, TLC

\* ------------------------------------------------------------------------
\* Bounds
\* ------------------------------------------------------------------------
\* Number of display_species_info calls explored in one behaviour.
MaxRequests == 3

\* ------------------------------------------------------------------------
\* Module-level data
\* ------------------------------------------------------------------------
\* species_list, cut down to two species (listbox order).
species_list == <<"Species A", "Species B">>

Species == {species_list[i] : i \in DOMAIN species_list}

\* state_list: the district names read from the shapefile, cut down to two.
state_list == <<"X", "Y">>

\* Timestamps are day ordinals; NaT is pandas' not-a-time.
NaT == 0

\* The date texts a user can leave in the two date entries: three valid
\* dates, the empty text and a text that is no date.
DateTexts == {"2023-01-01", "2023-06-01", "2023-12-01", "", "garbage"}

\* str(timestamp)[:10]
FormatDate(d) ==
    CASE d = 1 -> "2023-01-01"
      [] d = 2 -> "2023-06-01"
      [] d = 3 -> "2023-12-01"

\* pd.to_datetime raises on a text that is no date.
ToDatetimeRaises(text) == text = "garbage"

\* pd.to_datetime on a text it accepts; the empty text gives NaT.
ToDatetime(text) ==
    CASE text = "2023-01-01" -> 1
      [] text = "2023-06-01" -> 2
      [] text = "2023-12-01" -> 3
      [] OTHER -> NaT

\* Timestamp comparison: anything compared with NaT is False.
DateGE(a, b) == a # NaT /\ b # NaT /\ a >= b

DateLE(a, b) == a # NaT /\ b # NaT /\ a <= b

\* mock_df: the generated sample table, cut down to three rows.
mock_df ==
    << [sample_id |-> 1, species |-> "Species A", district |-> "X", sample_date |-> 1],
       [sample_id |-> 2, species |-> "Species B", district |-> "Y", sample_date |-> 2],
       [sample_id |-> 3, species |-> "Species A", district |-> "X", sample_date |-> 3] >>

\* species.replace(' ', '_') in the request URL.
UrlKey(species) ==
    CASE species = "Species A" -> "Species_A"
      [] species = "Species B" -> "Species_B"

\* The JSON bodies the summary endpoint can answer with for a page:
\* "None" marks a key the body does not have.
Bodies(url) ==
    { [title |-> "None", extract |-> "extract 1", thumbnail |-> "None"],
      [title |-> url, extract |-> "extract 2", thumbnail |-> "thumb.png"] }

\* data.get(key, default)
Get(value, default) == IF value = "None" THEN default ELSE value

\* The dict fetch_species_info.run builds from a 200 answer.
MakeInfo(species, data) ==
    [title |-> Get(data.title, species),
     desc  |-> Get(data.extract, "No info found."),
     img   |-> data.thumbnail]

VARIABLES
    df,                  \* self.df
    filtered_df,         \* self.filtered_df
    table,               \* rows of self.table
    plot_species,        \* what self.plot_species shows: counts by species
    plot_state,          \* what self.plot_state shows: counts by district
    plot_date,           \* what self.plot_date shows: counts by date, dates ascending
    selection,           \* self.lb_species.curselection(), as a set of indices
    district_var,        \* self.district_var
    date_from,           \* self.date_from
    date_to,             \* self.date_to
    species_info_cache,  \* the module-level dict
    threads,             \* running fetch threads, oldest first: [id, species, pc, info]
    started,             \* number of fetch threads started so far
    hits,                \* number of display_species_info calls answered from the cache
    requested,           \* argument of the latest display_species_info call
    info_title,          \* text of self.info_title
    info_img,            \* image of self.info_img
    info_desc            \* text of self.info_desc

filterVars == <<df, filtered_df, table, plot_species, plot_state, plot_date>>
widgetVars == <<district_var, date_from, date_to>>
panelVars == <<info_title, info_img, info_desc>>
fetchVars == <<species_info_cache, threads, started, hits, requested>>
vars == <<df, filtered_df, table, plot_species, plot_state, plot_date,
          selection, district_var, date_from, date_to,
          species_info_cache, threads, started, hits, requested,
          info_title, info_img, info_desc>>

\* ------------------------------------------------------------------------
\* Sequence helpers
\* ------------------------------------------------------------------------
\* Removal of the i-th running thread.
Remove(seq, i) == SubSeq(seq, 1, i - 1) \o SubSeq(seq, i + 1, Len(seq))

Min(S) == CHOOSE x \in S : \A y \in S : x <= y

Max(S) == CHOOSE x \in S : \A y \in S : x >= y

\* ------------------------------------------------------------------------
\* Projections of the filtered view
\* ------------------------------------------------------------------------
\* update_table: one row of strings per record of the view.
TableRows(view) ==
    [i \in DOMAIN view |->
        <<ToString(view[i].sample_id), view[i].species, view[i].district,
          FormatDate(view[i].sample_date)>>]

\* self.filtered_df[name]: one column of the view.
Column(view, name) == [i \in DOMAIN view |-> view[i][name]]

\* Series.value_counts(): the values present, each with its number of rows.
ValueCounts(series) ==
    LET present == {series[i] : i \in DOMAIN series}
    IN  [v \in present |-> Cardinality({i \in DOMAIN series : series[i] = v})]

RECURSIVE SortIndex(_)
\* value_counts().sort_index(): <<date, count>> pairs, dates ascending.
SortIndex(counts) ==
    IF DOMAIN counts = {} THEN <<>>
    ELSE LET d == Min(DOMAIN counts)
         IN  <<<<d, counts[d]>>>> \o
             SortIndex([x \in DOMAIN counts \ {d} |-> counts[x]])

\* ------------------------------------------------------------------------
\* apply_filter
\* ------------------------------------------------------------------------
\* species_sel: the species names at the selected listbox indices.
SpeciesSel(sel) == {species_list[i] : i \in sel}

\* df[df["species"].isin(species_sel)]
BySpecies(rows, sel) ==
    LET keep(r) == r.species \in SpeciesSel(sel)
    IN  SelectSeq(rows, keep)

\* if district != "All": df = df[df["district"] == district]
ByDistrict(rows, district) ==
    LET keep(r) == r.district = district
    IN  IF district # "All" THEN SelectSeq(rows, keep) ELSE rows

\* The try block: both texts are parsed first; if either raises, the date
\* mask is never applied.
ByDate(rows, from, to) ==
    LET keep(r) == DateGE(r.sample_date, ToDatetime(from)) /\
                   DateLE(r.sample_date, ToDatetime(to))
    IN  IF ToDatetimeRaises(from) \/ ToDatetimeRaises(to) THEN rows
        ELSE SelectSeq(rows, keep)

\* The view apply_filter assigns to self.filtered_df.
FilteredView(rows, sel, district, from, to) ==
    ByDate(ByDistrict(BySpecies(rows, sel), district), from, to)

\* Series.plot(kind="bar") of the counts of an empty view can raise inside
\* pandas (no bar positions to index); update_summary_plots has no handler,
\* so the exception leaves it at its first plot and Tk reports it.
PlotCanRaise(view) == IF view = <<>> THEN {TRUE, FALSE} ELSE {FALSE}

\* update_summary_plots: the three labels show the counts of the view.
UpdateSummaryPlots(view, raised) ==
    IF raised
    THEN UNCHANGED <<plot_species, plot_state, plot_date>>
    ELSE /\ plot_species' = ValueCounts(Column(view, "species"))
         /\ plot_state' = ValueCounts(Column(view, "district"))
         /\ plot_date' = SortIndex(ValueCounts(Column(view, "sample_date")))

\* The "Apply Filter" button.
ApplyFilter ==
    \E raised \in PlotCanRaise(FilteredView(df, selection, district_var, date_from, date_to)) :
        LET view == FilteredView(df, selection, district_var, date_from, date_to)
        IN  /\ filtered_df' = view
            /\ table' = TableRows(view)
            /\ UpdateSummaryPlots(view, raised)
            /\ UNCHANGED <<df, selection, widgetVars, fetchVars, panelVars>>

\* The user picks or types a district in the combobox.
SetDistrict(d) ==
    /\ d # district_var
    /\ district_var' = d
    /\ UNCHANGED <<filterVars, selection, date_from, date_to, fetchVars, panelVars>>

\* The user edits the "Date from" entry.
SetDateFrom(text) ==
    /\ text # date_from
    /\ date_from' = text
    /\ UNCHANGED <<filterVars, selection, district_var, date_to, fetchVars, panelVars>>

\* The user edits the "Date to" entry.
SetDateTo(text) ==
    /\ text # date_to
    /\ date_to' = text
    /\ UNCHANGED <<filterVars, selection, district_var, date_from, fetchVars, panelVars>>

\* ------------------------------------------------------------------------
\* Species info
\* ------------------------------------------------------------------------
\* Placeholder for the info field of a thread that has no answer yet.
NoInfo == [title |-> "", desc |-> "", img |-> "None"]

\* The threads running run() for a species that still wait for the answer
\* of requests.get.
InFlight(species) ==
    {t \in DOMAIN threads : threads[t].species = species /\ threads[t].pc = "get"}

\* A membership test that never finds the key.
CacheHitNever(species) == FALSE

\* if species in species_info_cache
CacheHit(species) == species \in DOMAIN species_info_cache

\* _show_species_info: title and description, and the thumbnail when the
\* info has one and its download succeeds.
ShowSpeciesInfo(info) ==
    /\ info_title' = info.title
    /\ info_desc' = info.desc
    /\ info_img' \in (IF info.img # "None" THEN {info.img, ""} ELSE {""})

\* A failure path that leaves the panel as it is.
CallbackNoneSilent(species) == UNCHANGED <<info_title, info_img, info_desc>>

\* display_species_info.callback with info = None
CallbackNone(species) ==
    /\ info_title' = species
    /\ info_img' = ""
    /\ info_desc' = "No info found online."

\* fetch_species_info: starts one more daemon thread running run().
StartFetch(species) ==
    /\ threads' = Append(threads, [id |-> started + 1, species |-> species,
                                   pc |-> "get", info |-> NoInfo])
    /\ started' = started + 1

\* display_species_info
DisplaySpeciesInfo(species) ==
    /\ started + hits < MaxRequests
    /\ requested' = species
    /\ IF CacheHit(species)
       THEN /\ ShowSpeciesInfo(species_info_cache[species])
            /\ hits' = hits + 1
            /\ UNCHANGED <<threads, started>>
       ELSE /\ info_title' = "Loading info..."
            /\ info_img' = ""
            /\ info_desc' = ""
            /\ StartFetch(species)
            /\ UNCHANGED hits
    /\ UNCHANGED species_info_cache

\* lb_species_event: the user toggles listbox item i (selectmode
\* "multiple"); the info of the first selected species is requested.
LbSpeciesEvent(i) ==
    LET sel == IF i \in selection THEN selection \ {i} ELSE selection \cup {i}
    IN  /\ selection' = sel
        /\ IF sel = {}
           THEN UNCHANGED <<fetchVars, panelVars>>
           ELSE DisplaySpeciesInfo(species_list[Min(sel)])
        /\ UNCHANGED <<filterVars, widgetVars>>

\* run(): the request came back with status 200; the callback is called
\* with the info, the cache assignment is still to come.
FetchSuccess(t) ==
    /\ threads[t].pc = "get"
    /\ \E data \in Bodies(UrlKey(threads[t].species)) :
          LET info == MakeInfo(threads[t].species, data)
          IN  /\ ShowSpeciesInfo(info)
              /\ threads' = [threads EXCEPT ![t].pc = "store", ![t].info = info]
    /\ UNCHANGED <<filterVars, selection, widgetVars,
                   species_info_cache, started, hits, requested>>

\* run(): another status, or requests.get / r.json() raised (timeout
\* included): callback(None), and the thread ends.
FetchFail(t) ==
    /\ threads[t].pc = "get"
    /\ CallbackNone(threads[t].species)
    /\ threads' = Remove(threads, t)
    /\ UNCHANGED <<filterVars, selection, widgetVars,
                   species_info_cache, started, hits, requested>>

\* species_info_cache[species] = {...}
CachePut(cache, species, info) ==
    [k \in DOMAIN cache \cup {species} |-> IF k = species THEN info ELSE cache[k]]

\* run(): the assignment into species_info_cache, after which the thread ends.
StoreInfo(t) ==
    /\ threads[t].pc = "store"
    /\ species_info_cache' = CachePut(species_info_cache, threads[t].species, threads[t].info)
    /\ threads' = Remove(threads, t)
    /\ UNCHANGED <<filterVars, selection, widgetVars,
                   started, hits, requested, panelVars>>

\* ------------------------------------------------------------------------
\* Specification
\* ------------------------------------------------------------------------
\* EDNAApp.__init__ and create_widgets.
Init ==
    /\ df = mock_df
    /\ filtered_df = mock_df
    /\ table = TableRows(mock_df)
    /\ plot_species = ValueCounts(Column(mock_df, "species"))
    /\ plot_state = ValueCounts(Column(mock_df, "district"))
    /\ plot_date = SortIndex(ValueCounts(Column(mock_df, "sample_date")))
    /\ selection = DOMAIN species_list
    /\ district_var = "All"
    /\ date_from = FormatDate(Min({mock_df[i].sample_date : i \in DOMAIN mock_df}))
    /\ date_to = FormatDate(Max({mock_df[i].sample_date : i \in DOMAIN mock_df}))
    /\ species_info_cache = <<>>
    /\ threads = <<>>
    /\ started = 0
    /\ hits = 0
    /\ requested = ""
    /\ info_title = ""
    /\ info_img = ""
    /\ info_desc = ""

Districts == {"All"} \cup {state_list[i] : i \in DOMAIN state_list}

Next ==
    \/ ApplyFilter
    \/ \E d \in Districts : SetDistrict(d)
    \/ \E text \in DateTexts : SetDateFrom(text)
    \/ \E text \in DateTexts : SetDateTo(text)
    \/ \E i \in DOMAIN species_list : LbSpeciesEvent(i)
    \/ \E t \in DOMAIN threads : FetchSuccess(t)
    \/ \E t \in DOMAIN threads : FetchFail(t)
    \/ \E t \in DOMAIN threads : StoreInfo(t)

Spec == Init /\ [][Next]_vars

\* The behaviours in which the district and date widgets keep their initial
\* contents: species selection, filtering and the fetch threads.
NextFetch ==
    \/ ApplyFilter
    \/ \E i \in DOMAIN species_list : LbSpeciesEvent(i)
    \/ \E t \in DOMAIN threads : FetchSuccess(t)
    \/ \E t \in DOMAIN threads : FetchFail(t)
    \/ \E t \in DOMAIN threads : StoreInfo(t)

SpecFetch == Init /\ [][NextFetch]_vars

\* The behaviours in which no request has been answered yet: the user edits
\* the filter widgets, selects species and applies the filter.
NextFilter ==
    \/ ApplyFilter
    \/ \E d \in Districts : SetDistrict(d)
    \/ \E text \in DateTexts : SetDateFrom(text)
    \/ \E text \in DateTexts : SetDateTo(text)
    \/ \E i \in DOMAIN species_list : LbSpeciesEvent(i)

SpecFilter == Init /\ [][NextFilter]_vars

\* ------------------------------------------------------------------------
\* Properties
\* ------------------------------------------------------------------------
\* A step that is a call of display_species_info(s).
IsRequest(s) == started' + hits' = started + hits + 1 /\ requested' = s

\* A step in which running thread t calls its callback: it leaves "get",
\* either for "store" (callback(info)) or by ending (callback(None)).
CallsBack(t) ==
    /\ threads[t].pc = "get"
    /\ \A u \in DOMAIN threads' : threads'[u].id = threads[t].id => threads'[u].pc # "get"
    /\ started' = started

\* A step in which running thread t ends after a failed fetch.
Fails(t) ==
    /\ threads[t].pc = "get"
    /\ \A u \in DOMAIN threads' : threads'[u].id # threads[t].id
    /\ started' = started

\* C1: single-flight - in every reachable state at most one network fetch
\* per species key is in flight.
SingleFlight == \A s \in Species : Cardinality(InFlight(s)) <= 1

\* C2: cache-hit idempotence - a display_species_info call for a key that
\* has an entry in species_info_cache shows the cached entry within the call
\* and starts no fetch thread; the cache is left as it is.
CacheHitStartsNoFetch ==
    [][\A s \in DOMAIN species_info_cache :
          IsRequest(s) =>
             /\ threads' = threads
             /\ started' = started
             /\ species_info_cache' = species_info_cache
             /\ info_title' = species_info_cache[s].title
             /\ info_desc' = species_info_cache[s].desc]_vars

\* C2 witness: a request has been answered from the cache, and the panel
\* shows the cached entry of the requested species with no thread running.
CacheHitServed ==
    /\ hits > 0
    /\ threads = <<>>
    /\ requested \in DOMAIN species_info_cache
    /\ info_title = species_info_cache[requested].title
    /\ info_desc = species_info_cache[requested].desc

\* C3: Ready is terminal - an entry of species_info_cache is never removed
\* and never replaced by a different value.
ReadyIsTerminal ==
    [][\A k \in DOMAIN species_info_cache :
          /\ k \in DOMAIN species_info_cache'
          /\ species_info_cache'[k] = species_info_cache[k]]_vars

\* C4: failure outcome - when a fetch fails, the callback shows the
\* "not found" panel for the requested species, nothing is stored in the
\* cache, no new fetch is started by the failure, and a request for a key
\* that has no cache entry (as after a failure) starts a new fetch.
FailureOutcome ==
    [][/\ \A t \in DOMAIN threads :
             Fails(t) =>
                /\ info_title' = threads[t].species
                /\ info_img' = ""
                /\ info_desc' = "No info found online."
                /\ species_info_cache' = species_info_cache
                /\ Len(threads') = Len(threads) - 1
       /\ \A s \in Species \ DOMAIN species_info_cache :
             IsRequest(s) =>
                /\ started' = started + 1
                /\ Len(threads') = Len(threads) + 1
                /\ threads'[Len(threads')].species = s
                /\ threads'[Len(threads')].pc = "get"]_vars

\* C4 witness: the first fetch for a species failed (nothing cached, its
\* thread gone), the species was requested again and a second fetch for it
\* is in flight.
RefetchAfterFailure ==
    /\ started = 2
    /\ hits = 0
    /\ selection = {2}
    /\ species_info_cache = <<>>
    /\ Len(threads) = 1
    /\ threads[1].id = 2
    /\ threads[1].pc = "get"
    /\ threads[1].species = requested
    /\ info_title = "Loading info..."

\* C5: waiter ordering - of two requests for the same key that are both
\* waiting, the one registered earlier gets its callback first.
WaitersNotifiedInOrder ==
    [][\A t \in DOMAIN threads :
          CallsBack(t) => \A u \in InFlight(threads[t].species) : u >= t]_vars

\* C10: no stale species info - once no fetch is running, the panel shows
\* the result (info or "not found") of the most recently requested species.
PanelShowsLatestRequest ==
    (threads = <<>> /\ requested # "") =>
        info_title \in {requested, UrlKey(requested)}

\* The records of rows that satisfy every active constraint of the
\* criteria: species membership if the species set is non-empty, district
\* equality unless "All", and each date bound that is given as a date.
Satisfies(r, sel, district, from, to) ==
    /\ sel # {} => r.species \in SpeciesSel(sel)
    /\ district # "All" => r.district = district
    /\ (~ToDatetimeRaises(from) /\ ToDatetime(from) # NaT) => r.sample_date >= ToDatetime(from)
    /\ (~ToDatetimeRaises(to) /\ ToDatetime(to) # NaT) => r.sample_date <= ToDatetime(to)

ExactView(rows, sel, district, from, to) ==
    LET keep(r) == Satisfies(r, sel, district, from, to)
    IN  SelectSeq(rows, keep)

\* C6: filter soundness and completeness - whenever apply_filter replaces
\* the view, the new view holds exactly the records of the store that
\* satisfy every active constraint of the current criteria.
FilterSoundAndComplete ==
    [][filtered_df' # filtered_df =>
          filtered_df' = ExactView(df, selection, district_var, date_from, date_to)]_vars

\* C7: filter identity law - with no species selected, district "All" and
\* no date bounds, the view apply_filter produces is the full store.
FilterIdentity ==
    [][(/\ selection = {}
        /\ district_var = "All"
        /\ date_from = ""
        /\ date_to = ""
        /\ filtered_df' # filtered_df) => filtered_df' = df]_vars

\* The date bounds do not parse, or dateFrom is later than dateTo.
BadDateRange(from, to) ==
    \/ ToDatetimeRaises(from)
    \/ ToDatetimeRaises(to)
    \/ /\ ToDatetime(from) # NaT
       /\ ToDatetime(to) # NaT
       /\ ToDatetime(from) > ToDatetime(to)

\* C8: an inverted or malformed date range is a validation error - no
\* filtered view is produced from it, the current view stays.
BadDateRangeGivesNoView ==
    [][BadDateRange(date_from, date_to) => filtered_df' = filtered_df]_vars

\* C9: projections never go stale - in every state the table rows and the
\* three summaries are the projection of the current filtered view.
ProjectionsFresh ==
    /\ table = TableRows(filtered_df)
    /\ plot_species = ValueCounts(Column(filtered_df, "species"))
    /\ plot_state = ValueCounts(Column(filtered_df, "district"))
    /\ plot_date = SortIndex(ValueCounts(Column(filtered_df, "sample_date")))

====
